---- MODULE Spec2Model ----
(***************************************************************************)
(* Model of the matrix orchestration core of api-node:                     *)
(*   ProcessMatrixAndGetStatsUseCase.execute (validation, gateway call,    *)
(*   error re-mapping, statistics) and the AppError class hierarchy.       *)
(***************************************************************************)
EXTENDS Integers, Sequences, FiniteSets, TLC

(***************************************************************************)
(* Bounds of the model.                                                    *)
(***************************************************************************)
MaxRows == 2
MaxCols == 2

(***************************************************************************)
(* JavaScript values.  Every value is a record of one shape:               *)
(*   t : the value's kind ("undefined", "null", "number", "string",        *)
(*       "object", "array"); typeof is derived from it by TypeOf           *)
(*   n : the numeric value of a finite number                              *)
(*   s : the text of a string, or "NaN" / "Infinity" / "-Infinity" for a   *)
(*       non-finite number                                                 *)
(*   a : the elements of an array                                          *)
(***************************************************************************)
Undefined == [t |-> "undefined", n |-> 0, s |-> "", a |-> <<>>]
Null == [t |-> "null", n |-> 0, s |-> "", a |-> <<>>]
Num(k) == [t |-> "number", n |-> k, s |-> "", a |-> <<>>]
NaN == [t |-> "number", n |-> 0, s |-> "NaN", a |-> <<>>]
PosInfinity == [t |-> "number", n |-> 0, s |-> "Infinity", a |-> <<>>]
NegInfinity == [t |-> "number", n |-> 0, s |-> "-Infinity", a |-> <<>>]
Str(x) == [t |-> "string", n |-> 0, s |-> x, a |-> <<>>]
Obj == [t |-> "object", n |-> 0, s |-> "", a |-> <<>>]
Arr(es) == [t |-> "array", n |-> 0, s |-> "", a |-> es]

\* typeof v
TypeOf(v) ==
    CASE v.t = "undefined" -> "undefined"
      [] v.t = "number" -> "number"
      [] v.t = "string" -> "string"
      [] OTHER -> "object"

\* Array.isArray(v)
IsArray(v) == v.t = "array"

\* ToBoolean(v), as used by !v
Truthy(v) ==
    CASE v.t \in {"undefined", "null"} -> FALSE
      [] v.t = "number" -> (v.s \in {"Infinity", "-Infinity"}) \/ (v.s = "" /\ v.n # 0)
      [] v.t = "string" -> v.s # ""
      [] OTHER -> TRUE

\* v.length: defined for arrays and strings, undefined for numbers and plain
\* objects; reading it from null or undefined throws a TypeError.
HasLength(v) == v.t \in {"array", "string"}
Length(v) == IF v.t = "array" THEN Len(v.a) ELSE Len(v.s)
ThrowsOnProperty(v) == v.t \in {"undefined", "null"}

\* v[i] with a zero-based index i
Index(v, i) ==
    CASE v.t = "array" -> IF i < Len(v.a) THEN v.a[i + 1] ELSE Undefined
      [] v.t = "string" -> IF i < Len(v.s) THEN Str(SubSeq(v.s, i + 1, i + 1)) ELSE Undefined
      [] OTHER -> Undefined

\* String(v), as a template literal `${v}` renders a primitive
ToStr(v) ==
    CASE v.t = "string" -> v.s
      [] v.t = "number" -> IF v.s = "" THEN ToString(v.n) ELSE v.s
      [] v.t = "null" -> "null"
      [] v.t = "undefined" -> "undefined"
      [] OTHER -> "[object Object]"

\* a || b
OrElse(a, b) == IF Truthy(a) THEN a ELSE b

\* a default parameter value: used when the argument is undefined
Default(a, d) == IF a = Undefined THEN d ELSE a

(***************************************************************************)
(* Error objects.  proto is the class whose prototype the object has       *)
(* (what instanceof looks at); response is the HTTP response an Axios      *)
(* error carries.  Message texts are written without their accents.        *)
(***************************************************************************)
\* A response body: k is "object", "empty" (an empty body, which Axios hands
\* over as '') or "null"; data is the success payload, the other fields are
\* those of an error body.
NoPayload == [present |-> FALSE, original_matrix |-> Undefined,
              rotated_matrix |-> Undefined, qr_factorization |-> Undefined]
Body(k, error, details, message, data) ==
    [k |-> k, error |-> error, details |-> details, message |-> message, data |-> data]
NullBody == Body("null", Undefined, Undefined, Undefined, NoPayload)
EmptyBody == Body("empty", Undefined, Undefined, Undefined, NoPayload)
NoResponse == [present |-> FALSE, status |-> Undefined, data |-> NullBody]

\* class hierarchy: the classes on the prototype chain of an instance of c
ProtoChain(c) ==
    CASE c \in {"InvalidMatrixError", "GoApiError", "UnauthorizedError", "InternalServerError"}
            -> {c, "AppError", "Error"}
      [] c = "AppError" -> {"AppError", "Error"}
      [] c = "TypeError" -> {"TypeError", "Error"}
      [] OTHER -> {"Error"}

\* e instanceof c
InstanceOf(e, c) == c \in ProtoChain(e.proto)

\* new Error(message), constructed for the class newTarget
ErrorCtor(newTarget, message) ==
    [proto |-> newTarget, name |-> "Error", message |-> message,
     statusCode |-> Undefined, errorCode |-> Undefined, details |-> Undefined,
     response |-> NoResponse]

\* The TypeError the runtime throws on a bad property access or call
TypeErrorOf(text) == [ErrorCtor("TypeError", Str(text)) EXCEPT !.name = "TypeError"]

\* AppError's constructor; newTarget is the class named in the new expression
AppErrorCtor(newTarget, message, statusCode, errorCode, details) ==
    LET this == ErrorCtor(newTarget, message)
    IN  [this EXCEPT !.statusCode = Default(statusCode, Num(500)),
                     !.errorCode = Default(errorCode, Str("SERVER_ERROR")),
                     !.details = details,
                     !.name = "AppError",
                     !.proto = "AppError"]

AppError(message, statusCode, errorCode, details) ==
    AppErrorCtor("AppError", message, statusCode, errorCode, details)

InvalidMatrixError(details) ==
    AppErrorCtor("InvalidMatrixError", Str("Invalid matrix provided."), Num(400),
                 Str("INVALID_MATRIX"), details)

GoApiError(message, details, statusCode) ==
    AppErrorCtor("GoApiError", Default(message, Str("Error communicating with Go API.")),
                 Default(statusCode, Num(500)), Str("GO_API_ERROR"), details)

UnauthorizedError(details) ==
    AppErrorCtor("UnauthorizedError", Str("Authentication required or invalid token."),
                 Num(401), Str("UNAUTHORIZED"), details)

\* The error Axios rejects with when the backend answers with an error status
AxiosError(status, data) ==
    [ErrorCtor("Error", Str("Request failed with status code " \o ToStr(status)))
        EXCEPT !.response = [present |-> TRUE, status |-> status, data |-> data]]

(***************************************************************************)
(* Validation of the input matrix, lines 39-56 of execute.                 *)
(***************************************************************************)
EmptyText == "Input matrix is empty or malformed."
RectText == "Matrix must be rectangular (all rows must have the same number of columns)."
NonNumText == "Matrix must contain only arrays of numbers."

\* row.every(item => typeof item === 'number')
EveryNumber(row) == \A i \in 1..Len(row.a) : TypeOf(row.a[i]) = "number"

\* The loop body with the cell check made before the length check
CheckRow_CellsFirst(row, numCols) ==
    IF ThrowsOnProperty(row) THEN "TypeError: length"
    ELSE IF IsArray(row) /\ ~EveryNumber(row) THEN "nonnum"
    ELSE IF ~(HasLength(row) /\ Length(row) = numCols) THEN "rect"
    ELSE IF ~IsArray(row) THEN "TypeError: every"
    ELSE "ok"

\* The body of the loop for one row: "ok" when the row passes both checks
CheckRow(row, numCols) ==
    IF ThrowsOnProperty(row) THEN "TypeError: length"
    ELSE IF ~(HasLength(row) /\ Length(row) = numCols) THEN "rect"
    ELSE IF ~IsArray(row) THEN "TypeError: every"
    ELSE IF ~EveryNumber(row) THEN "nonnum"
    ELSE "ok"

\* The loop over the rows from the (one-based) position i on
RECURSIVE CheckRows(_, _, _)
CheckRows(matrix, i, numCols) ==
    IF i > Len(matrix.a) THEN "ok"
    ELSE LET r == CheckRow(matrix.a[i], numCols)
         IN  IF r # "ok" THEN r ELSE CheckRows(matrix, i + 1, numCols)

\* The whole validation: "ok", or the check that stopped it
Validate(matrix) ==
    IF ~Truthy(matrix) \/ (HasLength(matrix) /\ Length(matrix) = 0)
          \/ ~IsArray(Index(matrix, 0))
    THEN "empty"
    ELSE CheckRows(matrix, 1, Length(Index(matrix, 0)))

\* The error execute throws for a validation outcome other than "ok"
ValidationError(v) ==
    CASE v = "empty" -> InvalidMatrixError(Str(EmptyText))
      [] v = "rect" -> InvalidMatrixError(Str(RectText))
      [] v = "nonnum" -> InvalidMatrixError(Str(NonNumText))
      [] v = "TypeError: length" ->
            TypeErrorOf("Cannot read properties of null (reading 'length')")
      [] OTHER -> TypeErrorOf("row.every is not a function")

(***************************************************************************)
(* calculateMatrixStatistics, lines 103-146.  The backend's matrices hold  *)
(* finite numbers (they arrive as JSON); average is kept as a reduced      *)
(* fraction, the exact value of totalSum / allValues.length.               *)
(***************************************************************************)
RECURSIVE Gcd(_, _)
Gcd(x, y) == IF y = 0 THEN x ELSE Gcd(y, x % y)

Abs(x) == IF x < 0 THEN -x ELSE x

\* x / y for y > 0
Divide(x, y) ==
    LET g == Gcd(Abs(x), y)
    IN  [num |-> x \div g, den |-> y \div g]

\* matrix.forEach(row => allValues = allValues.concat(row)), from row i on
RECURSIVE ConcatRows(_, _, _)
ConcatRows(allValues, matrix, i) ==
    IF i > Len(matrix.a) THEN allValues
    ELSE LET row == matrix.a[i]
         IN  ConcatRows(IF IsArray(row) THEN allValues \o row.a ELSE Append(allValues, row),
                        matrix, i + 1)

\* Math.max(...vs), Math.min(...vs) and the reduce that sums, for finite vs
MathMax(vs) == CHOOSE x \in {vs[i].n : i \in 1..Len(vs)} : \A i \in 1..Len(vs) : vs[i].n <= x
MathMin(vs) == CHOOSE x \in {vs[i].n : i \in 1..Len(vs)} : \A i \in 1..Len(vs) : vs[i].n >= x
RECURSIVE SumFrom(_, _)
SumFrom(vs, i) == IF i > Len(vs) THEN 0 ELSE vs[i].n + SumFrom(vs, i + 1)

\* isDiagonal without the test that the matrix is square
isDiagonal_NoSquareCheck(matrix) ==
    IF ~Truthy(matrix) \/ Length(matrix) = 0 THEN FALSE
    ELSE LET rows == Length(matrix)
             cols == Length(Index(matrix, 0))
         IN  \A i \in 0..(rows - 1) : \A j \in 0..(cols - 1) :
                 ~(i # j /\ Index(Index(matrix, i), j) # Num(0))

\* Lines 119-133
isDiagonal(matrix) ==
    IF ~Truthy(matrix) \/ Length(matrix) = 0 THEN FALSE
    ELSE LET rows == Length(matrix)
             cols == Length(Index(matrix, 0))
         IN  IF rows # cols THEN FALSE
             ELSE \A i \in 0..(rows - 1) : \A j \in 0..(cols - 1) :
                     ~(i # j /\ Index(Index(matrix, i), j) # Num(0))

NoStatistics ==
    [maxValue |-> 0, minValue |-> 0, average |-> Divide(0, 1), totalSum |-> 0,
     isDiagonalOriginal |-> FALSE, isDiagonalRotated |-> FALSE]

NoError == ErrorCtor("none", Undefined)

\* calculateMatrixStatistics with the values of the rotated matrix left out
calculateMatrixStatistics_OriginalOnly(originalMatrix, rotatedMatrix) ==
    IF ~IsArray(originalMatrix) \/ ~IsArray(rotatedMatrix)
    THEN [threw |-> TRUE, value |-> NoStatistics,
          error |-> TypeErrorOf("Cannot read properties of undefined (reading 'forEach')")]
    ELSE LET allValues == ConcatRows(<<>>, originalMatrix, 1)
         IN  IF Len(allValues) = 0
             THEN [threw |-> TRUE, value |-> NoStatistics,
                   error |-> InvalidMatrixError(
                       Str("No numeric values found in matrices to calculate statistics."))]
             ELSE [threw |-> FALSE, error |-> NoError,
                   value |-> [maxValue |-> MathMax(allValues),
                              minValue |-> MathMin(allValues),
                              average |-> Divide(SumFrom(allValues, 1), Len(allValues)),
                              totalSum |-> SumFrom(allValues, 1),
                              isDiagonalOriginal |-> isDiagonal(originalMatrix),
                              isDiagonalRotated |-> isDiagonal(rotatedMatrix)]]

\* calculateMatrixStatistics with the guard looking at the original matrix only
calculateMatrixStatistics_GuardsOriginalOnly(originalMatrix, rotatedMatrix) ==
    IF ~IsArray(originalMatrix) \/ ~IsArray(rotatedMatrix)
    THEN [threw |-> TRUE, value |-> NoStatistics,
          error |-> TypeErrorOf("Cannot read properties of undefined (reading 'forEach')")]
    ELSE LET allValues == ConcatRows(ConcatRows(<<>>, originalMatrix, 1), rotatedMatrix, 1)
         IN  IF Len(ConcatRows(<<>>, originalMatrix, 1)) = 0
             THEN [threw |-> TRUE, value |-> NoStatistics,
                   error |-> InvalidMatrixError(
                       Str("No numeric values found in matrices to calculate statistics."))]
             ELSE [threw |-> FALSE, error |-> NoError,
                   value |-> [maxValue |-> MathMax(allValues),
                              minValue |-> MathMin(allValues),
                              average |-> Divide(SumFrom(allValues, 1), Len(allValues)),
                              totalSum |-> SumFrom(allValues, 1),
                              isDiagonalOriginal |-> isDiagonal(originalMatrix),
                              isDiagonalRotated |-> isDiagonal(rotatedMatrix)]]

\* [threw, error, value]: the statistics, or the error the method throws
calculateMatrixStatistics(originalMatrix, rotatedMatrix) ==
    IF ~IsArray(originalMatrix) \/ ~IsArray(rotatedMatrix)
    THEN [threw |-> TRUE, value |-> NoStatistics,
          error |-> TypeErrorOf("Cannot read properties of undefined (reading 'forEach')")]
    ELSE LET allValues == ConcatRows(ConcatRows(<<>>, originalMatrix, 1), rotatedMatrix, 1)
         IN  IF Len(allValues) = 0
             THEN [threw |-> TRUE, value |-> NoStatistics,
                   error |-> InvalidMatrixError(
                       Str("No numeric values found in matrices to calculate statistics."))]
             ELSE [threw |-> FALSE, error |-> NoError,
                   value |-> [maxValue |-> MathMax(allValues),
                              minValue |-> MathMin(allValues),
                              average |-> Divide(SumFrom(allValues, 1), Len(allValues)),
                              totalSum |-> SumFrom(allValues, 1),
                              isDiagonalOriginal |-> isDiagonal(originalMatrix),
                              isDiagonalRotated |-> isDiagonal(rotatedMatrix)]]

(***************************************************************************)
(* CalculateMatrixStatsUseCase.execute, calculate-matrix-stats.usecase.ts  *)
(* 20-79; its inner isDiagonal (51-66) is the same text as lines 119-133   *)
(* of the service.                                                         *)
(***************************************************************************)
\* CalculateMatrixStatsUseCase.execute without its guard at line 24
CalculateMatrixStatsExecute_NoGuard(original_matrix, rotated_matrix) ==
    calculateMatrixStatistics(original_matrix, rotated_matrix)

\* [threw, error, value], as for calculateMatrixStatistics
CalculateMatrixStatsExecute(original_matrix, rotated_matrix) ==
    IF \/ ~Truthy(original_matrix) \/ Length(original_matrix) = 0
       \/ ~Truthy(rotated_matrix) \/ Length(rotated_matrix) = 0
    THEN [threw |-> TRUE, value |-> NoStatistics,
          error |-> InvalidMatrixError(
              Str("Matrices provided are empty or invalid for statistics calculation."))]
    ELSE LET allValues == ConcatRows(ConcatRows(<<>>, original_matrix, 1), rotated_matrix, 1)
         IN  IF Len(allValues) = 0
             THEN [threw |-> TRUE, value |-> NoStatistics,
                   error |-> InvalidMatrixError(
                       Str("No numeric values found in matrices to calculate statistics."))]
             ELSE [threw |-> FALSE, error |-> NoError,
                   value |-> [maxValue |-> MathMax(allValues),
                              minValue |-> MathMin(allValues),
                              average |-> Divide(SumFrom(allValues, 1), Len(allValues)),
                              totalSum |-> SumFrom(allValues, 1),
                              isDiagonalOriginal |-> isDiagonal(original_matrix),
                              isDiagonalRotated |-> isDiagonal(rotated_matrix)]]

(***************************************************************************)
(* GoApiHttpClient: the response interceptor and processMatrix.            *)
(* A reply is what the transport observed: kind "response" with a status   *)
(* and a body, "noresponse" (request sent, nothing came back, which is     *)
(* also how the 10 s timeout ends) or "setup" (the request was never sent).*)
(***************************************************************************)
DimensionCode == "dimensiones_de_matriz_invalidas"

Reply(kind, status, body) == [kind |-> kind, status |-> status, body |-> body]
NoReply == Reply("none", Undefined, NullBody)

Resolved(data) == [settled |-> "resolved", data |-> data, error |-> NoError]
Rejected(error) == [settled |-> "rejected", data |-> NoPayload, error |-> error]
Pending == [settled |-> "pending", data |-> NoPayload, error |-> NoError]

\* InterceptResponse with the dimension code recognised on every status
InterceptResponse_CodeOnly(status, errorData) ==
    IF errorData.k = "null"
    THEN TypeErrorOf("Cannot read properties of null (reading 'details')")
    ELSE IF status = Num(401)
    THEN UnauthorizedError(OrElse(errorData.details,
            Str("Token de acceso de la aplicacion invalido o expirado.")))
    ELSE IF errorData.error = Str(DimensionCode)
    THEN AxiosError(status, errorData)
    ELSE GoApiError(
            OrElse(errorData.message,
                   OrElse(errorData.details,
                          Str("Go API responded with status " \o ToStr(status)))),
            OrElse(errorData.error, Str("HTTP_STATUS_" \o ToStr(status))),
            status)

\* The interceptor's error handler, for an error that carries a response
InterceptResponse(status, errorData) ==
    IF errorData.k = "null"
    THEN TypeErrorOf("Cannot read properties of null (reading 'details')")
    ELSE IF status = Num(401)
    THEN UnauthorizedError(OrElse(errorData.details,
            Str("Token de acceso de la aplicacion invalido o expirado.")))
    ELSE IF status = Num(400) /\ errorData.error = Str(DimensionCode)
    THEN AxiosError(status, errorData)
    ELSE GoApiError(
            OrElse(errorData.message,
                   OrElse(errorData.details,
                          Str("Go API responded with status " \o ToStr(status)))),
            OrElse(errorData.error, Str("HTTP_STATUS_" \o ToStr(status))),
            status)

\* validateStatus of Axios: a 2xx status resolves, any other rejects
IsSuccessStatus(status) == status.n >= 200 /\ status.n < 300

\* processMatrix without the test of response.data and response.data.data
processMatrix_NoPayloadCheck(reply) ==
    IF reply.kind = "noresponse"
    THEN Rejected(GoApiError(
            Str("No response received from Go API. It might be down or unreachable."),
            Str("NETWORK_ERROR"), Undefined))
    ELSE IF reply.kind = "setup"
    THEN Rejected(GoApiError(
            Str("Error setting up request to Go API: " \o ToStr(reply.body.message)),
            Undefined, Undefined))
    ELSE IF ~IsSuccessStatus(reply.status)
    THEN Rejected(InterceptResponse(reply.status, reply.body))
    ELSE Resolved(reply.body.data)

\* GoApiHttpClient.processMatrix for a given reply of the transport
processMatrix(reply) ==
    IF reply.kind = "noresponse"
    THEN Rejected(GoApiError(
            Str("No response received from Go API. It might be down or unreachable."),
            Str("NETWORK_ERROR"), Undefined))
    ELSE IF reply.kind = "setup"
    THEN Rejected(GoApiError(
            Str("Error setting up request to Go API: " \o ToStr(reply.body.message)),
            Undefined, Undefined))
    ELSE IF ~IsSuccessStatus(reply.status)
    THEN Rejected(InterceptResponse(reply.status, reply.body))
    ELSE IF reply.body.k # "object" \/ ~reply.body.data.present
    THEN Rejected(GoApiError(Str("Go API response data is malformed or missing."),
                             Undefined, Undefined))
    ELSE Resolved(reply.body.data)

(***************************************************************************)
(* ProcessMatrixAndGetStatsUseCase.execute after the gateway has settled.  *)
(***************************************************************************)
NoResult == [originalMatrix |-> Undefined, rotatedMatrix |-> Undefined,
             qrFactorization |-> Undefined, statistics |-> NoStatistics]
Fulfilled(value) == [status |-> "fulfilled", value |-> value, error |-> NoError]
Threw(error) == [status |-> "rejected", value |-> NoResult, error |-> error]
NoOutcome == [status |-> "none", value |-> NoResult, error |-> NoError]

\* The catch block, lines 62-79: what execute throws for a gateway error
CatchBlock(error) ==
    IF Truthy(error.response.status)
    THEN IF error.response.status = Num(400)
            /\ error.response.data.error = Str(DimensionCode)
         THEN InvalidMatrixError(OrElse(error.response.data.details,
                 Str("Las dimensiones de la matriz son invalidas segun la API de Go.")))
         ELSE GoApiError(
                 OrElse(error.response.data.details,
                        Str("Error de la API de Go con estado "
                            \o ToStr(error.response.status) \o ".")),
                 OrElse(error.response.data.error, Str("GO_API_ERROR")),
                 error.response.status)
    ELSE GoApiError(
            Str("Fallo al conectar o error desconocido de la API de Go: "
                \o ToStr(error.message)),
            Str("NETWORK_ERROR"), Undefined)

\* AssembleResult with the two matrices of the backend exchanged in the result
AssembleResult_Swapped(goResult) ==
    LET st == calculateMatrixStatistics(goResult.original_matrix, goResult.rotated_matrix)
    IN  IF st.threw THEN Threw(st.error)
        ELSE Fulfilled([originalMatrix |-> goResult.rotated_matrix,
                        rotatedMatrix |-> goResult.original_matrix,
                        qrFactorization |-> goResult.qr_factorization,
                        statistics |-> st.value])

\* Lines 81-90: statistics and the assembled result
AssembleResult(goResult) ==
    LET st == calculateMatrixStatistics(goResult.original_matrix, goResult.rotated_matrix)
    IN  IF st.threw THEN Threw(st.error)
        ELSE Fulfilled([originalMatrix |-> goResult.original_matrix,
                        rotatedMatrix |-> goResult.rotated_matrix,
                        qrFactorization |-> goResult.qr_factorization,
                        statistics |-> st.value])

\* The continuation of execute once the awaited gateway promise has settled
Continue(settlement) ==
    IF settlement.settled = "rejected" THEN Threw(CatchBlock(settlement.error))
    ELSE AssembleResult(settlement.data)

(***************************************************************************)
(* The inputs of execute and the behaviours of the gateway.                *)
(***************************************************************************)
\* Values a cell may hold: a finite number, non-finite numbers, a non-number;
\* MoreCells appear only in rows of one cell
Cells == {Num(1), NaN, Str("a")}
MoreCells == {PosInfinity, NegInfinity, Null}

\* Sequences over S of length at most n
SeqsUpTo(S, n) == UNION {[1..k -> S] : k \in 0..n}

\* Values a row may be: arrays of cells, and values that are not arrays
ArrayRows == {Arr(cs) : cs \in SeqsUpTo(Cells, MaxCols)} \cup {Arr(<<c>>) : c \in MoreCells}
OtherRows == {Null, Num(7), Str("ab")}
Rows == ArrayRows \cup OtherRows

\* Values the matrix property of the request may be
Inputs ==
    {Arr(rs) : rs \in SeqsUpTo(Rows, MaxRows)}
        \cup {Undefined, Null, Num(0), Num(7), Str(""), Str("ab"), Obj}

\* A matrix of finite numbers, written as a sequence of sequences of integers
Mat(rows) == Arr([i \in 1..Len(rows) |-> Arr([j \in 1..Len(rows[i]) |-> Num(rows[i][j])])])

\* Matrices the backend may return; Undefined stands for a missing field
BackendMatrices ==
    {Undefined, Mat(<<>>), Mat(<< <<>> >>), Mat(<< <<5>> >>),
     Mat(<< <<1, 0>>, <<0, 2>> >>), Mat(<< <<1, 1>>, <<0, 2>> >>), Mat(<< <<1, 2, 3>> >>),
     Mat(<< <<-3, 0>> >>),
     Mat(<< <<1, 2, 3>>, <<4, 5, 6>>, <<7, 8, 9>> >>),
     Mat(<< <<7, 4, 1>>, <<8, 5, 2>>, <<9, 6, 3>> >>)}

Payload(a, b) ==
    [present |-> TRUE, original_matrix |-> a, rotated_matrix |-> b, qr_factorization |-> Obj]
Payloads == {Payload(a, b) : a, b \in BackendMatrices}

\* A 2xx reply whose body carries the payload p
Success(p) == Reply("response", Num(200), Body("object", Undefined, Undefined, Undefined, p))

ErrorStatuses == {Num(400), Num(401), Num(422), Num(500)}
ErrorBodies ==
    {Body("object", e, d, m, NoPayload) :
        e \in {Undefined, Str(DimensionCode), Str("internal_error")},
        d \in {Undefined, Str("La matriz debe ser cuadrada.")},
        m \in {Undefined, Str("boom")}}
      \cup {EmptyBody, NullBody}

\* What the transport can observe for one request
Replies ==
    {Reply("response", st, b) : st \in ErrorStatuses, b \in ErrorBodies}
      \cup {Success(p) : p \in Payloads}
      \cup {Reply("response", Num(200), b) :
                b \in {EmptyBody, NullBody,
                       Body("object", Undefined, Undefined, Undefined, NoPayload)}}
      \cup {Reply("noresponse", Undefined, NullBody),
            Reply("setup", Undefined,
                  Body("object", Undefined, Undefined, Str("Invalid URL"), NoPayload))}

\* Rejections of the substitute gateways of the unit and integration tests
StubRejections ==
    {GoApiError(Str("Something went wrong on Go API"), Str("INTERNAL_GO_SERVER_ERROR"), Num(500)),
     GoApiError(Str("Go API internal error"), Str("GO_API_FAIL"), Num(503)),
     UnauthorizedError(Str("Token rejected.")),
     ErrorCtor("Error", Str("Network Error"))}

(***************************************************************************)
(* State: an execute call on the service instance, and a second call that  *)
(* may be in flight on the same instance at the same time.                 *)
(***************************************************************************)
VARIABLES
    pc,             \* "idle", "awaiting" (suspended on the gateway) or "done"
    matrix,         \* request.matrix of the current call
    calls,          \* calls of goApiGateway.processMatrix made by the current call
    gatewayArg,     \* the argument of the last processMatrix call
    reply,          \* what the transport observed (NoReply with a substitute gateway)
    settlement,     \* how the processMatrix promise settled
    outcome,        \* how the execute promise settled
    pc2, matrix2, calls2, gatewayArg2, reply2, settlement2, outcome2,
                    \* the same, for the second call
    hpc,            \* an HTTP request to /api/matrix/process-matrix: "idle",
                    \* "authorized" (the middleware called next()), "awaiting"
                    \* (the controller is suspended on execute) or "done"
    authorization,  \* req.headers.authorization
    bodyMatrix,     \* req.body.matrix
    controllerCalls,\* calls of MatrixController.processMatrix for the request
    backendCalls,   \* calls of goApiGateway.processMatrix for the request
    backendReply,   \* what the transport observed for the request
    raised,         \* how the gateway call of the request settled
    nextErrors,     \* the errors next was called with, in order
    response,       \* the calls of res.status and res.json, in order
    statsOriginal,  \* a pair of matrices handed to both statistics
    statsRotated,   \*   implementations
    stepResult,     \* what calculateMatrixStatistics of the service did with it
    useCaseResult   \* what CalculateMatrixStatsUseCase.execute did with it

varsA == <<pc, matrix, calls, gatewayArg, reply, settlement, outcome>>
varsB == <<pc2, matrix2, calls2, gatewayArg2, reply2, settlement2, outcome2>>
varsH == <<hpc, authorization, bodyMatrix, controllerCalls, backendCalls, backendReply,
           raised, nextErrors, response>>
varsS == <<statsOriginal, statsRotated, stepResult, useCaseResult>>
vars == <<varsA, varsB, varsH, varsS>>

\* A statistics implementation that has not run
NotRun == [done |-> FALSE, threw |-> FALSE, error |-> NoError, value |-> NoStatistics]

\* A response nothing was written to
NoWrites == [statusCalls |-> <<>>, jsonCalls |-> <<>>]

InitCalls ==
    /\ pc = "idle"
    /\ matrix = Undefined
    /\ calls = 0
    /\ gatewayArg = Undefined
    /\ reply = NoReply
    /\ settlement = Pending
    /\ outcome = NoOutcome
    /\ pc2 = "idle"
    /\ matrix2 = Undefined
    /\ calls2 = 0
    /\ gatewayArg2 = Undefined
    /\ reply2 = NoReply
    /\ settlement2 = Pending
    /\ outcome2 = NoOutcome
    /\ hpc = "idle"
    /\ authorization = Undefined
    /\ bodyMatrix = Undefined
    /\ controllerCalls = 0
    /\ backendCalls = 0
    /\ backendReply = NoReply
    /\ raised = Pending
    /\ nextErrors = <<>>
    /\ response = NoWrites

Init ==
    /\ InitCalls
    /\ statsOriginal = Undefined
    /\ statsRotated = Undefined
    /\ stepResult = NotRun
    /\ useCaseResult = NotRun

\* Execute with the gateway contacted before the input is validated
Execute_CallsGatewayFirst(m) ==
    /\ pc = "idle"
    /\ matrix' = m
    /\ reply' = NoReply
    /\ settlement' = Pending
    /\ calls' = 1
    /\ gatewayArg' = m
    /\ IF Validate(m) = "ok"
       THEN pc' = "awaiting" /\ outcome' = NoOutcome
       ELSE pc' = "done" /\ outcome' = Threw(ValidationError(Validate(m)))
    /\ UNCHANGED <<varsB, varsH, varsS>>

\* execute({matrix: m}) up to its first suspension: lines 36-61
Execute(m) ==
    /\ pc = "idle"
    /\ matrix' = m
    /\ reply' = NoReply
    /\ settlement' = Pending
    /\ IF Validate(m) = "ok"
       THEN /\ pc' = "awaiting"
            /\ calls' = 1
            /\ gatewayArg' = m
            /\ outcome' = NoOutcome
       ELSE /\ pc' = "done"
            /\ calls' = 0
            /\ gatewayArg' = Undefined
            /\ outcome' = Threw(ValidationError(Validate(m)))
    /\ UNCHANGED <<varsB, varsH, varsS>>

\* HttpGatewaySettles with the gateway's result kept in a field of the
\* instance, which the continuation reads after the other call has written it
HttpGatewaySettles_SharedResult(r) ==
    /\ pc = "awaiting"
    /\ reply' = r
    /\ settlement' = processMatrix(r)
    /\ outcome' = IF settlement2.settled # "pending" THEN Continue(settlement2)
                  ELSE Continue(processMatrix(r))
    /\ pc' = "done"
    /\ UNCHANGED <<matrix, calls, gatewayArg>>
    /\ UNCHANGED <<varsB, varsH, varsS>>

\* The GoApiHttpClient settles the call for the reply r; execute runs to its end
HttpGatewaySettles(r) ==
    /\ pc = "awaiting"
    /\ reply' = r
    /\ settlement' = processMatrix(r)
    /\ outcome' = Continue(processMatrix(r))
    /\ pc' = "done"
    /\ UNCHANGED <<matrix, calls, gatewayArg>>
    /\ UNCHANGED <<varsB, varsH, varsS>>

\* A substitute gateway rejects with e; execute runs to its end
StubGatewayRejects(e) ==
    /\ pc = "awaiting"
    /\ settlement' = Rejected(e)
    /\ outcome' = Continue(Rejected(e))
    /\ pc' = "done"
    /\ UNCHANGED <<matrix, calls, gatewayArg, reply>>
    /\ UNCHANGED <<varsB, varsH, varsS>>

\* The caller has the outcome; the service is ready for the next call
Return ==
    /\ pc = "done"
    /\ pc' = "idle"
    /\ matrix' = Undefined
    /\ calls' = 0
    /\ gatewayArg' = Undefined
    /\ reply' = NoReply
    /\ settlement' = Pending
    /\ outcome' = NoOutcome
    /\ UNCHANGED <<varsB, varsH, varsS>>

Next ==
    \/ pc = "idle" /\ \E m \in Inputs : Execute(m)
    \/ pc = "awaiting" /\ \E r \in Replies : HttpGatewaySettles(r)
    \/ pc = "awaiting" /\ \E e \in StubRejections : StubGatewayRejects(e)
    \/ Return

Spec == Init /\ [][Next]_vars

(***************************************************************************)
(* Two calls on the same service instance. The instance has one field, the *)
(* readonly goApiGateway (line 21); execute works on its parameters and    *)
(* locals, and each call awaits the promise of its own processMatrix call. *)
(***************************************************************************)
\* The second call, up to its first suspension
Execute2(m) ==
    /\ pc2 = "idle"
    /\ matrix2' = m
    /\ reply2' = NoReply
    /\ settlement2' = Pending
    /\ IF Validate(m) = "ok"
       THEN /\ pc2' = "awaiting"
            /\ calls2' = 1
            /\ gatewayArg2' = m
            /\ outcome2' = NoOutcome
       ELSE /\ pc2' = "done"
            /\ calls2' = 0
            /\ gatewayArg2' = Undefined
            /\ outcome2' = Threw(ValidationError(Validate(m)))
    /\ UNCHANGED <<varsA, varsH, varsS>>

\* HttpGatewaySettles2 with the instance remembering the last failure of an
\* earlier call and raising it again
HttpGatewaySettles2_RemembersFailure(r) ==
    /\ pc2 = "awaiting"
    /\ reply2' = r
    /\ settlement2' = processMatrix(r)
    /\ outcome2' = IF outcome.status = "rejected" THEN outcome
                   ELSE Continue(processMatrix(r))
    /\ pc2' = "done"
    /\ UNCHANGED <<matrix2, calls2, gatewayArg2>>
    /\ UNCHANGED <<varsA, varsH, varsS>>

\* The GoApiHttpClient settles the request of the second call for the reply r
HttpGatewaySettles2(r) ==
    /\ pc2 = "awaiting"
    /\ reply2' = r
    /\ settlement2' = processMatrix(r)
    /\ outcome2' = Continue(processMatrix(r))
    /\ pc2' = "done"
    /\ UNCHANGED <<matrix2, calls2, gatewayArg2>>
    /\ UNCHANGED <<varsA, varsH, varsS>>

\* A substitute gateway rejects the second call with e
StubGatewayRejects2(e) ==
    /\ pc2 = "awaiting"
    /\ settlement2' = Rejected(e)
    /\ outcome2' = Continue(Rejected(e))
    /\ pc2' = "done"
    /\ UNCHANGED <<matrix2, calls2, gatewayArg2, reply2>>
    /\ UNCHANGED <<varsA, varsH, varsS>>

\* The caller of the second call has its outcome
Return2 ==
    /\ pc2 = "done"
    /\ pc2' = "idle"
    /\ matrix2' = Undefined
    /\ calls2' = 0
    /\ gatewayArg2' = Undefined
    /\ reply2' = NoReply
    /\ settlement2' = Pending
    /\ outcome2' = NoOutcome
    /\ UNCHANGED <<varsA, varsH, varsS>>

\* Inputs and gateway behaviours of the two calls
ConcurrentInputs ==
    {Arr(<<Arr(<<Num(1)>>)>>), Arr(<<Arr(<<Num(1), Num(1)>>)>>),
     Arr(<<Arr(<<Str("a")>>)>>), Undefined}
ConcurrentReplies ==
    {Success(Payload(Mat(<< <<5>> >>), Mat(<< <<5>> >>))),
     Success(Payload(Mat(<< <<1, 0>>, <<0, 2>> >>), Mat(<< <<1, 1>>, <<0, 2>> >>))),
     Success(Payload(Mat(<<>>), Mat(<< <<>> >>))),
     Reply("response", Num(401), EmptyBody),
     Reply("response", Num(500), Body("object", Undefined, Undefined, Str("boom"), NoPayload)),
     Reply("noresponse", Undefined, NullBody)}

NextConcurrent ==
    \/ pc = "idle" /\ \E m \in ConcurrentInputs : Execute(m)
    \/ pc = "awaiting" /\ \E r \in ConcurrentReplies : HttpGatewaySettles(r)
    \/ pc = "awaiting" /\ \E e \in StubRejections : StubGatewayRejects(e)
    \/ Return
    \/ pc2 = "idle" /\ \E m \in ConcurrentInputs : Execute2(m)
    \/ pc2 = "awaiting" /\ \E r \in ConcurrentReplies : HttpGatewaySettles2(r)
    \/ pc2 = "awaiting" /\ \E e \in StubRejections : StubGatewayRejects2(e)
    \/ Return2

SpecConcurrent == Init /\ [][NextConcurrent]_vars

(***************************************************************************)
(* The two statistics implementations applied to the same pair of matrices.*)
(***************************************************************************)
InitStats ==
    /\ InitCalls
    /\ statsOriginal \in BackendMatrices
    /\ statsRotated \in BackendMatrices
    /\ stepResult = NotRun
    /\ useCaseResult = NotRun

\* A result [threw, error, value] of an implementation that has run
Ran(r) == [done |-> TRUE, threw |-> r.threw, error |-> r.error, value |-> r.value]

\* The statistics step of ProcessMatrixAndGetStatsUseCase, line 82
StatisticsStep ==
    /\ ~stepResult.done
    /\ stepResult' = Ran(calculateMatrixStatistics(statsOriginal, statsRotated))
    /\ UNCHANGED <<statsOriginal, statsRotated, useCaseResult>>
    /\ UNCHANGED <<varsA, varsB, varsH>>

\* CalculateMatrixStatsUseCase.execute({original_matrix, rotated_matrix})
StatsUseCaseExecute ==
    /\ ~useCaseResult.done
    /\ useCaseResult' = Ran(CalculateMatrixStatsExecute(statsOriginal, statsRotated))
    /\ UNCHANGED <<statsOriginal, statsRotated, stepResult>>
    /\ UNCHANGED <<varsA, varsB, varsH>>

NextStats ==
    \/ StatisticsStep
    \/ StatsUseCaseExecute

SpecStats == InitStats /\ [][NextStats]_vars

(***************************************************************************)
(* Termination of a call made through GoApiHttpClient.  The client is      *)
(* created with timeout: 10000 (line 35): a request the backend does not   *)
(* answer is ended by Axios after 10 s with an error that has a request    *)
(* and no response, the no-response branch of the interceptor (59-61).     *)
(* The timer always expires, hence the weak fairness of TimeoutFires.      *)
(***************************************************************************)
TimeoutFires == HttpGatewaySettles(Reply("noresponse", Undefined, NullBody))

NextTimed ==
    \/ pc = "idle" /\ \E m \in ConcurrentInputs : Execute(m)
    \/ pc = "awaiting" /\ \E r \in Replies : HttpGatewaySettles(r)
    \/ TimeoutFires
    \/ Return

SpecTimed == Init /\ [][NextTimed]_vars /\ WF_vars(TimeoutFires)

(***************************************************************************)
(* The HTTP boundary of /api/matrix: authMiddleware, mounted before the    *)
(* matrix router (app.ts 61-69), and MatrixController.processMatrix.       *)
(***************************************************************************)
\* s.startsWith(prefix)
StartsWith(s, prefix) == Len(s) >= Len(prefix) /\ SubSeq(s, 1, Len(prefix)) = prefix

\* The position of the first space of s at or after i, Len(s) + 1 if none
RECURSIVE FirstSpace(_, _)
FirstSpace(s, i) ==
    IF i > Len(s) THEN Len(s) + 1
    ELSE IF SubSeq(s, i, i) = " " THEN i
    ELSE FirstSpace(s, i + 1)

\* s.split(' ')[1]
SplitSecond(s) ==
    LET p == FirstSpace(s, 1)
        q == FirstSpace(s, p + 1)
    IN  IF p > Len(s) THEN Undefined ELSE Str(SubSeq(s, p + 1, q - 1))

\* jwt.verify(token, config.jwtSecret): "ok", or the name of the error thrown.
\* The token "good" is signed with the secret and current, "expired" is past
\* its expiry, "notyet" is before its nbf date, every other text is rejected.
JwtVerify(token) ==
    CASE token = Str("good") -> "ok"
      [] token = Str("expired") -> "TokenExpiredError"
      [] token = Str("notyet") -> "NotBeforeError"
      [] OTHER -> "JsonWebTokenError"

\* authMiddleware without the test of the scheme
authMiddlewareResult_AnyScheme(authHeader) ==
    IF ~Truthy(authHeader)
    THEN [passed |-> FALSE,
          error |-> UnauthorizedError(Str("No token provided or malformed token."))]
    ELSE LET v == JwtVerify(SplitSecond(authHeader.s))
         IN  IF v = "ok" THEN [passed |-> TRUE, error |-> NoError]
             ELSE IF v = "TokenExpiredError"
             THEN [passed |-> FALSE,
                   error |-> UnauthorizedError(Str("Token expired. Please log in again."))]
             ELSE IF v = "JsonWebTokenError"
             THEN [passed |-> FALSE, error |-> UnauthorizedError(Str("Invalid token."))]
             ELSE [passed |-> FALSE, error |-> UnauthorizedError(Str("Authentication failed."))]

\* authMiddleware: [passed, error], the error being the argument of next
authMiddlewareResult(authHeader) ==
    IF ~Truthy(authHeader) \/ ~StartsWith(authHeader.s, "Bearer ")
    THEN [passed |-> FALSE,
          error |-> UnauthorizedError(Str("No token provided or malformed token."))]
    ELSE LET v == JwtVerify(SplitSecond(authHeader.s))
         IN  IF v = "ok" THEN [passed |-> TRUE, error |-> NoError]
             ELSE IF v = "TokenExpiredError"
             THEN [passed |-> FALSE,
                   error |-> UnauthorizedError(Str("Token expired. Please log in again."))]
             ELSE IF v = "JsonWebTokenError"
             THEN [passed |-> FALSE, error |-> UnauthorizedError(Str("Invalid token."))]
             ELSE [passed |-> FALSE, error |-> UnauthorizedError(Str("Authentication failed."))]

\* The controller's own checks of req.body.matrix, lines 39-47: "ok" or the text
ControllerCheck(m) ==
    IF ~Truthy(m) THEN "Matrix is required in the request body."
    ELSE IF ~IsArray(m) THEN "Matrix must be an array."
    ELSE IF Length(m) = 0 \/ ~IsArray(Index(m, 0)) THEN "Matrix is empty or malformed."
    ELSE "ok"

\* The controller's catch block, lines 57-66: the argument of next
ControllerCatch(error) ==
    IF InstanceOf(error, "AppError") THEN error
    ELSE AppError(Str("An unexpected error occurred during matrix processing."),
                  Num(500), Str("INTERNAL_SERVER_ERROR"), error.message)

\* The argument of res.json on success, lines 52-55
SuccessBody(result) ==
    [k \in {"message", "data"} |->
        IF k = "message"
        THEN Str("Matrix processed and statistics generated successfully.")
        ELSE result]

\* A request arrives and authMiddleware handles it
AuthMiddleware(h, m) ==
    /\ hpc = "idle"
    /\ authorization' = h
    /\ bodyMatrix' = m
    /\ IF authMiddlewareResult(h).passed
       THEN hpc' = "authorized" /\ nextErrors' = <<>>
       ELSE hpc' = "done" /\ nextErrors' = <<authMiddlewareResult(h).error>>
    /\ UNCHANGED <<controllerCalls, backendCalls, backendReply, raised, response>>
    /\ UNCHANGED <<varsA, varsB, varsS>>

\* MatrixController.processMatrix up to its suspension on the gateway call
\* that execute makes, or to its end if no gateway call is made
ControllerProcessMatrix ==
    /\ hpc = "authorized"
    /\ controllerCalls' = controllerCalls + 1
    /\ IF ControllerCheck(bodyMatrix) # "ok"
       THEN /\ nextErrors' = Append(nextErrors,
                    ControllerCatch(InvalidMatrixError(Str(ControllerCheck(bodyMatrix)))))
            /\ hpc' = "done"
            /\ UNCHANGED backendCalls
       ELSE IF Validate(bodyMatrix) # "ok"
       THEN /\ nextErrors' = Append(nextErrors,
                    ControllerCatch(ValidationError(Validate(bodyMatrix))))
            /\ hpc' = "done"
            /\ UNCHANGED backendCalls
       ELSE /\ backendCalls' = backendCalls + 1
            /\ hpc' = "awaiting"
            /\ UNCHANGED nextErrors
    /\ UNCHANGED <<authorization, bodyMatrix, backendReply, raised, response>>
    /\ UNCHANGED <<varsA, varsB, varsS>>

\* ControllerResumes with the catch block answering the request itself
\* before it hands the error to next
ControllerResumes_AnswersAndCallsNext(s, r) ==
    /\ hpc = "awaiting"
    /\ backendReply' = r
    /\ raised' = s
    /\ IF Continue(s).status = "fulfilled"
       THEN /\ response' = [statusCalls |-> Append(response.statusCalls, 200),
                            jsonCalls |-> Append(response.jsonCalls,
                                                 SuccessBody(Continue(s).value))]
            /\ UNCHANGED nextErrors
       ELSE /\ nextErrors' = Append(nextErrors, ControllerCatch(Continue(s).error))
            /\ response' = [statusCalls |-> Append(response.statusCalls, 500),
                            jsonCalls |-> response.jsonCalls]
    /\ hpc' = "done"
    /\ UNCHANGED <<authorization, bodyMatrix, controllerCalls, backendCalls>>
    /\ UNCHANGED <<varsA, varsB, varsS>>

\* The gateway call settles as s: execute runs to its end and the controller
\* writes the response or calls next
ControllerResumes(s, r) ==
    /\ hpc = "awaiting"
    /\ backendReply' = r
    /\ raised' = s
    /\ IF Continue(s).status = "fulfilled"
       THEN /\ response' = [statusCalls |-> Append(response.statusCalls, 200),
                            jsonCalls |-> Append(response.jsonCalls,
                                                 SuccessBody(Continue(s).value))]
            /\ UNCHANGED nextErrors
       ELSE /\ nextErrors' = Append(nextErrors, ControllerCatch(Continue(s).error))
            /\ UNCHANGED response
    /\ hpc' = "done"
    /\ UNCHANGED <<authorization, bodyMatrix, controllerCalls, backendCalls>>
    /\ UNCHANGED <<varsA, varsB, varsS>>

\* The GoApiHttpClient settles the gateway call for the reply r
HttpBackendReplies(r) == ControllerResumes(processMatrix(r), r)

\* A substitute gateway rejects with e, or throws e synchronously: the await
\* at line 61 is inside the try block, so both reach the catch block
HttpStubGatewayFails(e) == ControllerResumes(Rejected(e), NoReply)

\* The request is over
HttpFinish ==
    /\ hpc = "done"
    /\ hpc' = "idle"
    /\ authorization' = Undefined
    /\ bodyMatrix' = Undefined
    /\ controllerCalls' = 0
    /\ backendCalls' = 0
    /\ backendReply' = NoReply
    /\ raised' = Pending
    /\ nextErrors' = <<>>
    /\ response' = NoWrites
    /\ UNCHANGED <<varsA, varsB, varsS>>

\* The Authorization headers and request bodies of the requests
Headers ==
    {Undefined, Str(""), Str("Basic good"), Str("Bearer"), Str("bearer good"),
     Str("Bearer good"), Str("Bearer expired"), Str("Bearer notyet"),
     Str("Bearer forged"), Str("Bearer "), Str("Bearer  good"), Str("Bearer good x")}
BodyMatrices ==
    {Undefined, Null, Num(0), Str("ab"), Obj, Arr(<<>>), Arr(<<Num(1)>>),
     Arr(<<Arr(<<>>)>>), Arr(<<Arr(<<Num(1)>>), Null>>),
     Arr(<<Arr(<<Num(1), Str("a")>>), Arr(<<Num(3), Num(4)>>)>>),
     Mat(<< <<1>> >>), Mat(<< <<1, 2, 3>> >>), Mat(<< <<1, 2>>, <<3, 4>> >>)}
HttpReplies ==
    Replies \cup {Success(Payload(Mat(<< <<1, 2>>, <<3, 4>> >>), Mat(<< <<3, 1>>, <<4, 2>> >>)))}
HttpStubRejections ==
    StubRejections
      \cup {InvalidMatrixError(Str("La matriz debe ser cuadrada.")),
            GoApiError(Str("Error inesperado de la API de Go."), Str("GO_API_ERROR"), Num(500)),
            ErrorCtor("Error", Str("Something completely unexpected happened!"))}

NextHttp ==
    \/ hpc = "idle" /\ \E h \in Headers, m \in BodyMatrices : AuthMiddleware(h, m)
    \/ ControllerProcessMatrix
    \/ hpc = "awaiting" /\ \E r \in HttpReplies : HttpBackendReplies(r)
    \/ hpc = "awaiting" /\ \E e \in HttpStubRejections : HttpStubGatewayFails(e)
    \/ HttpFinish

SpecHttp == Init /\ [][NextHttp]_vars

TypeOK ==
    /\ pc \in {"idle", "awaiting", "done"}
    /\ calls \in 0..1

(***************************************************************************)
(* Vocabulary of the properties.                                           *)
(***************************************************************************)
\* The failure kinds of the specification, told apart by the error's code
IsInvalidMatrixShape(e) == e.errorCode = Str("INVALID_MATRIX") /\ e.statusCode = Num(400)
IsBackendUnauthorized(e) == e.errorCode = Str("UNAUTHORIZED") /\ e.statusCode = Num(401)
IsBackendError(e) == e.errorCode = Str("GO_API_ERROR")

\* v is a finite number
IsFinite(v) == v.t = "number" /\ v.s = ""

\* The matrix is an array whose elements are all arrays
IsArrayOfArrays(m) == IsArray(m) /\ \A i \in 1..Len(m.a) : IsArray(m.a[i])

\* Absent, no rows, or a first row that is not a sequence
IsEmptyOrMalformed(m) == ~IsArray(m) \/ Len(m.a) = 0 \/ ~IsArray(m.a[1])

\* For an array of arrays with at least one row: the rows that fail a check
BadLengthRows(m) == {i \in 1..Len(m.a) : Len(m.a[i].a) # Len(m.a[1].a)}
NonNumberRows(m) ==
    {i \in 1..Len(m.a) : \E j \in 1..Len(m.a[i].a) : m.a[i].a[j].t # "number"}
NonFiniteRows(m) ==
    {i \in 1..Len(m.a) : \E j \in 1..Len(m.a[i].a) : ~IsFinite(m.a[i].a[j])}

\* The input fails one of the three checks of the validation
FailsSomeCheck(m) ==
    \/ IsEmptyOrMalformed(m)
    \/ IsArrayOfArrays(m) /\ (BadLengthRows(m) # {} \/ NonNumberRows(m) # {})

\* The input passes all three checks
PassesChecks(m) ==
    /\ IsArrayOfArrays(m)
    /\ ~IsEmptyOrMalformed(m)
    /\ BadLengthRows(m) = {}
    /\ NonNumberRows(m) = {}

Min(S) == CHOOSE x \in S : \A y \in S : x <= y

IsDimensionSignal(e) ==
    /\ e.response.present
    /\ e.response.status = Num(400)
    /\ e.response.data.error = Str(DimensionCode)

\* C2: when processMatrix rejects with a BackendUnauthorized or a BackendError,
\* execute rejects with that same failure: same kind, message, code and status.
C2_GatewayFailurePropagatesUnchanged ==
    (/\ pc = "done"
     /\ settlement.settled = "rejected"
     /\ IsBackendUnauthorized(settlement.error) \/ IsBackendError(settlement.error))
    => /\ outcome.status = "rejected"
       /\ outcome.error = settlement.error

\* C3: when processMatrix rejects with the invalid-dimensions signal carrying
\* the detail text d, execute rejects with an InvalidMatrixShape error whose
\* message is d.
C3_DimensionSignalBecomesMessage ==
    (/\ pc = "done"
     /\ settlement.settled = "rejected"
     /\ IsDimensionSignal(settlement.error)
     /\ Truthy(settlement.error.response.data.details))
    => /\ outcome.status = "rejected"
       /\ IsInvalidMatrixShape(outcome.error)
       /\ outcome.error.message = settlement.error.response.data.details

\* C4: when processMatrix rejects with a BackendError carrying status s and
\* code c (GoApiError(message, c, s)), execute rejects with a BackendError
\* whose statusCode is s and whose errorCode is c, for every status s.
C4_BackendErrorKeepsStatusAndCode ==
    (/\ pc = "done"
     /\ settlement.settled = "rejected"
     /\ IsBackendError(settlement.error)
     /\ Truthy(settlement.error.details))
    => /\ outcome.status = "rejected"
       /\ IsBackendError(outcome.error)
       /\ outcome.error.statusCode = settlement.error.statusCode
       /\ outcome.error.errorCode = settlement.error.details

\* The text of the validation failure execute rejected with
FailureText(o) == o.error.details

\* The input is an array of arrays, with at least one row, that has both a
\* row whose length differs from the first row's and a cell that is not a number
HasBothDefects(m) ==
    /\ IsArrayOfArrays(m)
    /\ ~IsEmptyOrMalformed(m)
    /\ BadLengthRows(m) # {}
    /\ NonNumberRows(m) # {}

\* C5 as claimed: an input with both a row of differing length and a
\* non-numeric cell, in any relative position, fails with 'not rectangular'
\* and never with 'non-numeric'.
C5_RectangularityBeforeCells ==
    (pc = "done" /\ HasBothDefects(matrix))
    => /\ outcome.status = "rejected"
       /\ FailureText(outcome) = Str(RectText)

\* C5 amended: the empty/malformed check runs first; then each row in turn has
\* its length checked and then its cells.  An array-of-arrays input with both
\* defects fails with 'not rectangular' when its first row of differing length
\* comes no later than its first row holding a non-number cell, and with
\* 'non-numeric' when a row holding a non-number cell comes first.
C5_ChecksRunRowByRow ==
    (pc = "done" /\ HasBothDefects(matrix))
    => /\ outcome.status = "rejected"
       /\ IsInvalidMatrixShape(outcome.error)
       /\ calls = 0
       /\ FailureText(outcome) =
             IF Min(BadLengthRows(matrix)) <= Min(NonNumberRows(matrix))
             THEN Str(RectText) ELSE Str(NonNumText)

\* C5 witness: a row with a non-number cell precedes the row of differing
\* length, and the call failed with the 'non-numeric' text
C5_Witness ==
    /\ pc = "done"
    /\ HasBothDefects(matrix)
    /\ Min(NonNumberRows(matrix)) < Min(BadLengthRows(matrix))
    /\ FailureText(outcome) = Str(NonNumText)

\* C6: for the input [] and for the input [[]], the call fails with the
\* 'empty or malformed' InvalidMatrixShape failure and the backend is not
\* contacted.
C6_EmptyInputsAreMalformed ==
    (pc # "idle" /\ matrix \in {Arr(<<>>), Arr(<<Arr(<<>>)>>)})
    => /\ pc = "done"
       /\ calls = 0
       /\ outcome.status = "rejected"
       /\ IsInvalidMatrixShape(outcome.error)
       /\ FailureText(outcome) = Str(EmptyText)

\* C7: every non-empty rectangular matrix with a cell that is not a finite
\* number (NaN, +Infinity, -Infinity, a string, null) is rejected with the
\* 'contains non-numeric values' failure, and no matrix with a non-finite
\* cell is ever passed to the gateway.
C7_OnlyFiniteCellsReachTheGateway ==
    /\ (/\ pc # "idle"
        /\ IsArrayOfArrays(matrix) /\ ~IsEmptyOrMalformed(matrix)
        /\ BadLengthRows(matrix) = {}
        /\ NonFiniteRows(matrix) # {})
       => /\ pc = "done"
          /\ outcome.status = "rejected"
          /\ FailureText(outcome) = Str(NonNumText)
    /\ (calls > 0 /\ IsArrayOfArrays(gatewayArg)) => NonFiniteRows(gatewayArg) = {}

\* C8: validation is total: whatever the input, a call that ends without
\* contacting the gateway ended with InvalidMatrixShape, never with another
\* kind of error.
C8_ValidationIsTotal ==
    (pc = "done" /\ calls = 0)
    => /\ outcome.status = "rejected"
       /\ IsInvalidMatrixShape(outcome.error)

\* The check of the validation that the input fails first, for an array of arrays
FirstFailedCheck(m) ==
    IF IsEmptyOrMalformed(m) THEN EmptyText
    ELSE IF BadLengthRows(m) # {}
            /\ (NonNumberRows(m) = {} \/ Min(BadLengthRows(m)) <= Min(NonNumberRows(m)))
    THEN RectText
    ELSE NonNumText

\* C9: when execute rejects because of a local validation failure, the
\* error's message property is the text of the check that failed.
C9_MessageIsTheFailedCheck ==
    (pc = "done" /\ FailsSomeCheck(matrix))
    => /\ outcome.status = "rejected"
       /\ outcome.error.message = Str(FirstFailedCheck(matrix))

\* C10: an error created as InvalidMatrixError, GoApiError or
\* UnauthorizedError is an instance of that specific class: execute on an
\* invalid matrix rejects with an instance of InvalidMatrixError, and a
\* gateway failure yields an instance of GoApiError (or UnauthorizedError).
C10_ErrorsAreInstancesOfTheirClass ==
    LET OfItsClass(e) ==
            /\ e.errorCode = Str("INVALID_MATRIX") => InstanceOf(e, "InvalidMatrixError")
            /\ e.errorCode = Str("GO_API_ERROR") => InstanceOf(e, "GoApiError")
            /\ e.errorCode = Str("UNAUTHORIZED") => InstanceOf(e, "UnauthorizedError")
    IN  /\ outcome.status = "rejected" => OfItsClass(outcome.error)
        /\ settlement.settled = "rejected" => OfItsClass(settlement.error)

\* The gateway resolved with a payload whose two matrices are arrays of rows
BackendSucceeded ==
    /\ pc = "done"
    /\ settlement.settled = "resolved"
    /\ IsArrayOfArrays(settlement.data.original_matrix)
    /\ IsArrayOfArrays(settlement.data.rotated_matrix)

\* The positions <<i, j>> of the cells of a matrix, and the cell at a position
Positions(m) ==
    UNION {{<<i, j>> : j \in 1..Len(m.a[i].a)} : i \in 1..Len(m.a)}
CellAt(m, p) == m.a[p[1]].a[p[2]].n

\* The sum of the cells of m at the positions in P
RECURSIVE SumOver(_, _)
SumOver(m, P) ==
    IF P = {} THEN 0
    ELSE LET p == CHOOSE q \in P : TRUE
         IN  CellAt(m, p) + SumOver(m, P \ {p})

\* The values of all cells of a and b, their number and their sum
ValuesOf(a, b) ==
    {CellAt(a, p) : p \in Positions(a)} \cup {CellAt(b, p) : p \in Positions(b)}
CountOf(a, b) == Cardinality(Positions(a)) + Cardinality(Positions(b))
TotalOf(a, b) == SumOver(a, Positions(a)) + SumOver(b, Positions(b))

\* C11: for backend matrices a and b with at least one cell in total,
\* maxValue and minValue are the maximum and the minimum over all cells of a
\* and b, totalSum is the sum of all those cells, and average is totalSum
\* divided by the number of those cells.
C11_StatisticsOverBothMatrices ==
    LET a == settlement.data.original_matrix
        b == settlement.data.rotated_matrix
        st == outcome.value.statistics
    IN  (BackendSucceeded /\ CountOf(a, b) >= 1)
        => /\ outcome.status = "fulfilled"
           /\ st.maxValue \in ValuesOf(a, b)
           /\ \A v \in ValuesOf(a, b) : v <= st.maxValue
           /\ st.minValue \in ValuesOf(a, b)
           /\ \A v \in ValuesOf(a, b) : v >= st.minValue
           /\ st.totalSum = TotalOf(a, b)
           /\ st.average.den > 0
           /\ st.average.num * CountOf(a, b) = TotalOf(a, b) * st.average.den

\* The 3x3 matrix and its rotation: maximum 9, minimum 1, sum 90, average 5
C11_Witness ==
    /\ BackendSucceeded
    /\ settlement.data.original_matrix = Mat(<< <<1, 2, 3>>, <<4, 5, 6>>, <<7, 8, 9>> >>)
    /\ settlement.data.rotated_matrix = Mat(<< <<7, 4, 1>>, <<8, 5, 2>>, <<9, 6, 3>> >>)
    /\ outcome.status = "fulfilled"
    /\ outcome.value.statistics.maxValue = 9
    /\ outcome.value.statistics.minValue = 1
    /\ outcome.value.statistics.totalSum = 90
    /\ outcome.value.statistics.average = [num |-> 5, den |-> 1]

\* At least one row, as many rows as the first row has cells, and every cell
\* off the main diagonal is zero
IsDiagonalMatrix(m) ==
    /\ Len(m.a) >= 1
    /\ Len(m.a) = Len(m.a[1].a)
    /\ \A p \in Positions(m) : p[1] # p[2] => CellAt(m, p) = 0

\* C12: isDiagonalOriginal is true exactly when the backend's original
\* matrix has at least one row, as many rows as its first row is long, and
\* only zeros off the main diagonal; isDiagonalRotated is the same predicate
\* of the rotated matrix; each flag depends on its own matrix only. A 1x1
\* matrix is diagonal, a matrix with no rows or a non-square one never is.
C12_DiagonalFlags ==
    (BackendSucceeded /\ outcome.status = "fulfilled")
    => /\ outcome.value.statistics.isDiagonalOriginal
            = IsDiagonalMatrix(settlement.data.original_matrix)
       /\ outcome.value.statistics.isDiagonalRotated
            = IsDiagonalMatrix(settlement.data.rotated_matrix)

\* A diagonal original with a non-square rotated matrix of zeros off the diagonal
C12_Witness ==
    /\ BackendSucceeded
    /\ outcome.status = "fulfilled"
    /\ settlement.data.original_matrix = Mat(<< <<1, 0>>, <<0, 2>> >>)
    /\ settlement.data.rotated_matrix = Mat(<< <<-3, 0>> >>)
    /\ outcome.value.statistics.isDiagonalOriginal
    /\ ~outcome.value.statistics.isDiagonalRotated

NoValuesText == "No numeric values found in matrices to calculate statistics."

\* The failure of the statistics for matrices without cells, as a kind of its own
IsNoNumericValues(e) == e.details = Str(NoValuesText) /\ ~IsInvalidMatrixShape(e)

\* C13: after a successful backend response, execute rejects with
\* NoNumericValues, a failure kind of its own and distinct from
\* InvalidMatrixShape, if and only if the original and the rotated matrix
\* together hold zero cells; no result is returned then.
C13_NoNumericValuesIsAKindOfItsOwn ==
    LET a == settlement.data.original_matrix
        b == settlement.data.rotated_matrix
    IN  BackendSucceeded
        => /\ (CountOf(a, b) = 0)
                <=> (outcome.status = "rejected" /\ IsNoNumericValues(outcome.error))
           /\ CountOf(a, b) = 0 => outcome.value = NoResult

\* C13, amended: after a successful backend response whose two matrices are
\* arrays of rows, execute rejects if and only if the two matrices together
\* hold zero cells; the failure then has the kind of InvalidMatrixShape
\* (code INVALID_MATRIX, status 400) and carries the text 'No numeric values
\* found in matrices to calculate statistics.' in details; no result is
\* returned then, and a result is returned whenever a cell exists.
C13_NoValuesFailsAsInvalidMatrix ==
    LET a == settlement.data.original_matrix
        b == settlement.data.rotated_matrix
    IN  BackendSucceeded
        => /\ (CountOf(a, b) = 0) <=> (outcome.status = "rejected")
           /\ (CountOf(a, b) >= 1) <=> (outcome.status = "fulfilled")
           /\ CountOf(a, b) = 0
                => /\ IsInvalidMatrixShape(outcome.error)
                   /\ outcome.error.details = Str(NoValuesText)
                   /\ outcome.value = NoResult

\* The backend answered with [[]] and []
C13_Witness ==
    /\ BackendSucceeded
    /\ settlement.data.original_matrix = Mat(<< <<>> >>)
    /\ settlement.data.rotated_matrix = Mat(<<>>)
    /\ outcome.status = "rejected"
    /\ outcome.error.details = Str(NoValuesText)
    /\ outcome.error.errorCode = Str("INVALID_MATRIX")

\* C14: every failure of execute, for every input and every behaviour of the
\* backend (a success payload without original_matrix or rotated_matrix and
\* a gateway that throws an error outside the taxonomy included), is of one
\* of exactly four kinds: InvalidMatrixShape, BackendUnauthorized,
\* BackendError, NoNumericValues.
C14_FailuresAreOfFourKinds ==
    outcome.status = "rejected"
    => \/ IsInvalidMatrixShape(outcome.error)
       \/ IsBackendUnauthorized(outcome.error)
       \/ IsBackendError(outcome.error)
       \/ outcome.error.details = Str(NoValuesText)

\* C15: when the backend answers with status 401, whatever the body, execute
\* through the HTTP gateway rejects with BackendUnauthorized carrying status
\* 401, a kind distinct from BackendError.
C15_Backend401IsUnauthorized ==
    (pc = "done" /\ reply.kind = "response" /\ reply.status = Num(401))
    => /\ outcome.status = "rejected"
       /\ IsBackendUnauthorized(outcome.error)
       /\ ~IsBackendError(outcome.error)

\* C16: when no response at all is received from the backend, the gateway's
\* processMatrix rejects with a BackendError whose code is 'NETWORK_ERROR'.
C16_NoResponseIsNetworkError ==
    (pc = "done" /\ reply.kind = "noresponse")
    => /\ settlement.settled = "rejected"
       /\ InstanceOf(settlement.error, "AppError")
       /\ settlement.error.errorCode = Str("NETWORK_ERROR")

\* The failure carries the NETWORK_ERROR tag, as its code or as its details
IsTaggedNetworkError(e) ==
    e.errorCode = Str("NETWORK_ERROR") \/ e.details = Str("NETWORK_ERROR")

\* C17: execute raises a failure tagged NETWORK_ERROR only when no response
\* was received from the backend: every failure of a call to which the
\* backend did respond (401, another 4xx/5xx status, a success status with a
\* malformed payload) reaches the caller without the NETWORK_ERROR tag.
C17_NetworkTagOnlyWithoutResponse ==
    (pc = "done" /\ reply.kind = "response" /\ outcome.status = "rejected")
    => ~IsTaggedNetworkError(outcome.error)

\* C18: the core does not transform matrices: for a valid input m the
\* gateway is called with exactly m, which execute leaves as it was, and on
\* success the result's originalMatrix, rotatedMatrix and qrFactorization
\* are the backend's original_matrix, rotated_matrix and qr_factorization,
\* with the statistics computed from those two matrices.
C18_MatricesPassThrough ==
    /\ calls = 1 => gatewayArg = matrix
    /\ (pc = "done" /\ outcome.status = "fulfilled")
        => /\ settlement.settled = "resolved"
           /\ outcome.value.originalMatrix = settlement.data.original_matrix
           /\ outcome.value.rotatedMatrix = settlement.data.rotated_matrix
           /\ outcome.value.qrFactorization = settlement.data.qr_factorization
           /\ outcome.value.statistics.totalSum
                = TotalOf(settlement.data.original_matrix, settlement.data.rotated_matrix)
           /\ outcome.value.statistics.isDiagonalOriginal
                = IsDiagonalMatrix(settlement.data.original_matrix)
           /\ outcome.value.statistics.isDiagonalRotated
                = IsDiagonalMatrix(settlement.data.rotated_matrix)

\* A result whose matrices are the backend's, different from each other and
\* from the input
C18_Witness ==
    /\ pc = "done"
    /\ outcome.status = "fulfilled"
    /\ gatewayArg = matrix
    /\ outcome.value.originalMatrix = Mat(<< <<1, 2, 3>> >>)
    /\ outcome.value.rotatedMatrix = Mat(<< <<1, 0>>, <<0, 2>> >>)
    /\ outcome.value.originalMatrix # matrix
    /\ outcome.value.qrFactorization = Obj

AloneOutcome(m, s) ==
    IF Validate(m) # "ok" THEN Threw(ValidationError(Validate(m))) ELSE Continue(s)

\* C20: for two execute calls in flight at the same time on one instance,
\* under every interleaving and every order of completion, the outcome of
\* each call is the outcome it would have had alone with the same input and
\* the same answer of the backend; a result is never delivered to, or mixed
\* into, the other call.
C20_ConcurrentCallsAreIsolated ==
    /\ calls = 1 => gatewayArg = matrix
    /\ calls2 = 1 => gatewayArg2 = matrix2
    /\ (pc = "done" /\ reply # NoReply) => settlement = processMatrix(reply)
    /\ (pc2 = "done" /\ reply2 # NoReply) => settlement2 = processMatrix(reply2)
    /\ pc = "done" => outcome = AloneOutcome(matrix, settlement)
    /\ pc2 = "done" => outcome2 = AloneOutcome(matrix2, settlement2)

\* The second call has its result while the first, with another input, is
\* still suspended on the gateway
C20_Witness ==
    /\ pc = "awaiting"
    /\ pc2 = "done"
    /\ matrix # matrix2
    /\ outcome = NoOutcome
    /\ outcome2.status = "fulfilled"
    /\ outcome2.value.originalMatrix = Mat(<< <<1, 0>>, <<0, 2>> >>)

\* The header is 'Bearer ' followed by a token that verifies against the secret
CarriesValidToken(h) ==
    /\ h.t = "string"
    /\ \E k \in 1..Len(h.s) :
          /\ SubSeq(h.s, 1, k) = "Bearer good"
          /\ (k = Len(h.s) \/ SubSeq(h.s, k + 1, k + 1) = " ")

\* C21: a request to an /api/matrix route reaches the matrix controller, and
\* so can cause a backend call, only if its Authorization header starts with
\* 'Bearer ' and the token verifies against the configured secret; in every
\* other case (no header, another scheme, expired, invalid, any other
\* verification error) the middleware passes an Unauthorized (401) error
\* forward exactly once and neither the controller nor the backend is invoked.
C21_OnlyAuthorizedRequestsReachTheController ==
    /\ (controllerCalls > 0 \/ backendCalls > 0 \/ hpc \in {"authorized", "awaiting"})
        => CarriesValidToken(authorization)
    /\ (hpc # "idle" /\ ~CarriesValidToken(authorization))
        => /\ hpc = "done"
           /\ Len(nextErrors) = 1
           /\ IsBackendUnauthorized(nextErrors[1])
           /\ controllerCalls = 0
           /\ backendCalls = 0
           /\ response = NoWrites

\* A request with an expired token and a valid matrix is turned away
C21_Witness ==
    /\ hpc = "done"
    /\ authorization = Str("Bearer expired")
    /\ bodyMatrix = Mat(<< <<1>> >>)
    /\ Len(nextErrors) = 1
    /\ nextErrors[1].statusCode = Num(401)
    /\ nextErrors[1].details = Str("Token expired. Please log in again.")
    /\ controllerCalls = 0
    /\ backendCalls = 0

\* The cells of m in row-major order, from row i on
RECURSIVE RowMajor(_, _)
RowMajor(m, i) == IF i > Len(m.a) THEN <<>> ELSE m.a[i].a \o RowMajor(m, i + 1)

\* The transpose of a rectangular matrix with at least one row
Transpose(m) ==
    Arr([j \in 1..Len(m.a[1].a) |-> Arr([i \in 1..Len(m.a) |-> m.a[i].a[j]])])

\* A 200 response has been written for the request
RespondedWithSuccess == hpc = "done" /\ Len(response.jsonCalls) > 0

\* C22: on success the HTTP response has status 200 and its body contains
\* matrix (the input matrix), flat_matrix (the input's cells in row-major
\* order), inverted_matrix (the input's transpose), and min, max, sum and
\* avg computed over the cells of the input matrix alone.
C22_SuccessBodyIsTheReadmeShape ==
    RespondedWithSuccess
    => LET body == response.jsonCalls[1]
           m == bodyMatrix
           n == Cardinality(Positions(m))
       IN  /\ response.statusCalls = <<200>>
           /\ {"matrix", "flat_matrix", "inverted_matrix", "min", "max", "sum", "avg"}
                \subseteq DOMAIN body
           /\ body["matrix"] = m
           /\ body["flat_matrix"] = Arr(RowMajor(m, 1))
           /\ body["inverted_matrix"] = Transpose(m)
           /\ n > 0 => /\ body["min"] \in {CellAt(m, p) : p \in Positions(m)}
                       /\ \A p \in Positions(m) : body["min"] <= CellAt(m, p)
                       /\ body["max"] \in {CellAt(m, p) : p \in Positions(m)}
                       /\ \A p \in Positions(m) : body["max"] >= CellAt(m, p)
                       /\ body["sum"] = SumOver(m, Positions(m))
                       /\ body["avg"].num * n = body["sum"] * body["avg"].den

\* C23: when processing fails inside the gateway call, with an application
\* error or with an unexpected exception thrown synchronously, the
\* controller calls next with the exact error value the gateway raised, not
\* with a wrapped, translated or re-created one.
C23_NextGetsTheGatewaysError ==
    (hpc = "done" /\ raised.settled = "rejected")
    => nextErrors = <<raised.error>>

\* C24: for every request handled by MatrixController.processMatrix exactly
\* one of two things happens: a 200 response is written once (status, then
\* json) and next is never called, or next is called exactly once with an
\* error and nothing is written to the response; never both, never neither.
\* A body without a matrix property leads to next(InvalidMatrixError) and
\* no backend call.
C24_ResponseOrNextExactlyOnce ==
    /\ (controllerCalls = 1 /\ hpc = "awaiting")
        => response = NoWrites /\ nextErrors = <<>>
    /\ (controllerCalls = 1 /\ hpc = "done")
        => \/ /\ response.statusCalls = <<200>>
              /\ Len(response.jsonCalls) = 1
              /\ nextErrors = <<>>
           \/ /\ response = NoWrites
              /\ Len(nextErrors) = 1
    /\ (controllerCalls = 1 /\ hpc = "done" /\ bodyMatrix = Undefined)
        => /\ Len(nextErrors) = 1
           /\ IsInvalidMatrixShape(nextErrors[1])
           /\ backendCalls = 0

\* The controller has handled a body without a matrix property
C24_Witness ==
    /\ hpc = "done"
    /\ controllerCalls = 1
    /\ bodyMatrix = Undefined
    /\ response = NoWrites
    /\ Len(nextErrors) = 1
    /\ nextErrors[1].errorCode = Str("INVALID_MATRIX")
    /\ nextErrors[1].details = Str("Matrix is required in the request body.")
    /\ backendCalls = 0

\* The gateway call of the finished execute call got an error response
BackendAnsweredWithError ==
    pc = "done" /\ reply.kind = "response" /\ ~IsSuccessStatus(reply.status)

\* The error is the still-raw transport error with the backend's response,
\* not an error of the application
IsRawSignal(e) == e.response.present /\ ~InstanceOf(e, "AppError")

\* C25: the gateway emits the distinguished invalid-dimensions signal exactly
\* when the backend's response has status 400 and the error code
\* 'dimensiones_de_matriz_invalidas': that code on another status (422, 500)
\* yields BackendError, a 400 with another code yields BackendError, and a
\* 401 yields BackendUnauthorized even if its body carries that code.
C25_SignalOnlyFor400WithTheCode ==
    (BackendAnsweredWithError /\ reply.body.k # "null")
    => /\ settlement.settled = "rejected"
       /\ IsRawSignal(settlement.error)
            <=> (reply.status = Num(400) /\ reply.body.error = Str(DimensionCode))
       /\ reply.status = Num(401) => IsBackendUnauthorized(settlement.error)
       /\ (reply.status # Num(401)
            /\ ~(reply.status = Num(400) /\ reply.body.error = Str(DimensionCode)))
           => IsBackendError(settlement.error)

\* The dimension code on status 422 gives a BackendError with that status
C25_Witness ==
    /\ BackendAnsweredWithError
    /\ reply.status = Num(422)
    /\ reply.body.error = Str(DimensionCode)
    /\ settlement.settled = "rejected"
    /\ settlement.error.errorCode = Str("GO_API_ERROR")
    /\ settlement.error.statusCode = Num(422)
    /\ ~settlement.error.response.present

\* C26: for every backend error response whose status is not 401 and which
\* is not the 400 invalid-dimensions case, and for every body (an empty or
\* missing one included), the gateway rejects with a BackendError whose
\* statusCode is the response status, whose message is the backend's
\* message if present (else its details, else 'Go API responded with status
\* <status>'), and whose code is the backend's error code if present, else
\* 'HTTP_STATUS_<status>'.
C26_BackendErrorCarriesStatusMessageCode ==
    (/\ BackendAnsweredWithError
     /\ reply.status # Num(401)
     /\ ~(reply.status = Num(400) /\ reply.body.error = Str(DimensionCode)))
    => /\ settlement.settled = "rejected"
       /\ InstanceOf(settlement.error, "AppError")
       /\ settlement.error.statusCode = reply.status
       /\ settlement.error.message
            = OrElse(reply.body.message,
                     OrElse(reply.body.details,
                            Str("Go API responded with status " \o ToStr(reply.status))))
       /\ settlement.error.errorCode
            = OrElse(reply.body.error, Str("HTTP_STATUS_" \o ToStr(reply.status)))

\* C27: every processMatrix call eventually completes, with a result or a
\* failure, even if the backend never answers: the fixed 10-second timeout
\* fires and surfaces as the network-error case, a BackendError with code
\* NETWORK_ERROR; hence every execute call eventually completes.
C27_EveryCallCompletes ==
    /\ (pc = "awaiting") ~> (pc = "done" /\ settlement.settled # "pending"
                                        /\ outcome.status # "none")
    /\ [](reply.kind = "noresponse"
            => /\ settlement.settled = "rejected"
               /\ InstanceOf(settlement.error, "AppError")
               /\ settlement.error.errorCode = Str("NETWORK_ERROR"))

\* The backend answered with a success status and a body without the data field
SuccessWithoutData ==
    /\ pc = "done"
    /\ reply.kind = "response"
    /\ IsSuccessStatus(reply.status)
    /\ (reply.body.k # "object" \/ ~reply.body.data.present)

\* C28: when the backend answers with a success status but the body lacks
\* the expected data field (no body, or no data), processMatrix rejects with
\* a BackendError carrying the generic malformed-response message and never
\* returns a result to the orchestration service.
C28_MalformedSuccessIsRejected ==
    SuccessWithoutData
    => /\ settlement.settled = "rejected"
       /\ settlement.data = NoPayload
       /\ IsBackendError(settlement.error)
       /\ settlement.error.message = Str("Go API response data is malformed or missing.")
       /\ outcome.status = "rejected"

\* A 200 reply whose JSON body has no data property
C28_Witness ==
    /\ SuccessWithoutData
    /\ reply.body.k = "object"
    /\ settlement.settled = "rejected"
    /\ settlement.error.message = Str("Go API response data is malformed or missing.")
    /\ settlement.error.statusCode = Num(500)

\* Both statistics implementations have run on the pair of matrices
BothRan == stepResult.done /\ useCaseResult.done

\* The matrix is an array with at least one row
HasRows(m) == IsArray(m) /\ Len(m.a) >= 1

GuardText == "Matrices provided are empty or invalid for statistics calculation."

\* C29: the two statistics implementations agree: for every pair of
\* matrices (original, rotated), CalculateMatrixStatsUseCase.execute and the
\* statistics step of ProcessMatrixAndGetStatsUseCase have the same outcome,
\* the same six statistics or a failure in exactly the same cases, also when
\* only one of the two matrices has zero rows.
C29_StatisticsImplementationsAgree ==
    BothRan
    => /\ stepResult.threw = useCaseResult.threw
       /\ stepResult.value = useCaseResult.value

\* C29, amended: the two implementations agree whenever both matrices have
\* at least one row: the same six statistics, or the same failure when the
\* rows hold no cell. When a matrix has zero rows or is missing, the use
\* case always fails, with 'Matrices provided are empty or invalid for
\* statistics calculation.', while the statistics step fails only if a
\* matrix is missing or no cell exists in either matrix, and otherwise
\* returns the statistics of the cells of the other matrix.
C29_AgreeWhenBothHaveRows ==
    BothRan
    => /\ (HasRows(statsOriginal) /\ HasRows(statsRotated))
            => stepResult = useCaseResult
       /\ ~(HasRows(statsOriginal) /\ HasRows(statsRotated))
            => /\ useCaseResult.threw
               /\ useCaseResult.error.details = Str(GuardText)
               /\ stepResult.threw
                    <=> \/ ~IsArray(statsOriginal)
                        \/ ~IsArray(statsRotated)
                        \/ CountOf(statsOriginal, statsRotated) = 0
               /\ ~stepResult.threw
                    => stepResult.value.totalSum = TotalOf(statsOriginal, statsRotated)

\* An original matrix without rows next to [[5]]: the use case fails, the
\* statistics step returns the statistics of [[5]]
C29_Witness ==
    /\ BothRan
    /\ statsOriginal = Mat(<<>>)
    /\ statsRotated = Mat(<< <<5>> >>)
    /\ useCaseResult.threw
    /\ ~stepResult.threw
    /\ stepResult.value.totalSum = 5

====
